---- MODULE Spec2Model ----
(***************************************************************************)
(* Model of src/infer_play_diffusion.py: the PlayDiffusionInference class  *)
(* (run_asr, inpaint_audio, text_to_speech, run_complete_pipeline) and the *)
(* command-line entry point main().                                        *)
(*                                                                         *)
(* Representation.  A Python str is a sequence of one-character strings;   *)
(* None is the one-element sequence NoneStr, which no str equals.  A       *)
(* keyword argument or command-line flag that is not given is Absent.      *)
(* Floats are counted in tenths (1.0 is 10, 0.5 is 5, 0.7 is 7); times of  *)
(* word tokens are integer ticks.  The external libraries (nemo ASR,       *)
(* PlayDiffusion, soundfile) are stubs: every call is appended to `calls`  *)
(* with its arguments and its outcome, and a call either returns or        *)
(* raises.  An exception is never caught in the source, so raising ends    *)
(* the run in pc = "raised" with the exception in `err`.                   *)
(***************************************************************************)
EXTENDS Integers, Sequences, FiniteSets, TLC

VARIABLES
    entry,      \* what is run: main(), or one method called directly
    input,      \* the command line (entry "main") or the call's arguments
    args,       \* argparse's namespace, NoArgs before parse_args returned
    pc,         \* position in the code
    stack,      \* the functions that are active, outermost first
    frame,      \* the local variables of the innermost method
    inpainter,  \* self.inpainter: "none" or "loaded"
    asr_model,  \* self.asr_model: "none" or "loaded"
    calls,      \* the calls made to the external libraries, in order
    files,      \* the sf.write calls that succeeded, in order
    printed,    \* the output paths main() printed
    result,     \* the value the operation returned, NoResult before
    err,        \* the exception that ended the run, NoErr if none
    asrOut,     \* what the ASR stub returns from transcribe
    outcomes,   \* per external function: "unset", "ok" or "fail"
    first       \* the finished first run of a paired run, NoRun otherwise

vars == <<entry, input, args, pc, stack, frame, inpainter, asr_model, calls,
          files, printed, result, err, asrOut, outcomes, first>>

(***************************************************************************)
(* Bounds of the model.                                                    *)
(***************************************************************************)
\* the most characters the words of one ASR result have together
MaxChars == 4

(***************************************************************************)
(* Values.                                                                 *)
(***************************************************************************)
NoneStr == <<"None">>
Absent == 0 - 1
NoArgs == [parsed |-> FALSE]
NoErr == [type |-> "none", what |-> "none"]
NoRun == [taken |-> FALSE]
NoResult == [kind |-> "none"]
PathResult(p) == [kind |-> "path", path |-> p]
AsrResult(t1, t2, wt) == [kind |-> "asr", input_text |-> t1, output_text |-> t2, word_times |-> wt]

Flags == {"num_steps", "init_temp", "init_diversity", "guidance", "rescale", "topk"}

\* a faulty variant: argparse defaults that drifted from the signature's
ArgparseDefaultDrift(f) ==
    CASE f = "num_steps" -> 30
      [] f = "init_temp" -> 10
      [] f = "init_diversity" -> 10
      [] f = "guidance" -> 7
      [] f = "rescale" -> 5
      [] f = "topk" -> 25

\* the six sampling parameters as main() declares them to argparse
ArgparseDefault(f) ==
    CASE f = "num_steps" -> 30
      [] f = "init_temp" -> 10
      [] f = "init_diversity" -> 10
      [] f = "guidance" -> 5
      [] f = "rescale" -> 7
      [] f = "topk" -> 25

\* the six sampling parameters as inpaint_audio's signature declares them
SignatureDefault(f) ==
    CASE f = "num_steps" -> 30
      [] f = "init_temp" -> 10
      [] f = "init_diversity" -> 10
      [] f = "guidance" -> 5
      [] f = "rescale" -> 7
      [] f = "topk" -> 25

ModeDefault == "inpaint"
AsrModelDefault == <<"parakeet-tdt-0.6b-v2.nemo">>

\* Python's truth value of an optional str: None and "" are false
Falsy(s) == s = NoneStr \/ s = <<>>

(***************************************************************************)
(* str.strip(chars): drop the leading and the trailing characters that are *)
(* in chars.                                                               *)
(***************************************************************************)
RECURSIVE LStrip(_, _)
LStrip(w, chars) ==
    IF w # <<>> /\ Head(w) \in chars THEN LStrip(Tail(w), chars) ELSE w

RECURSIVE RStrip(_, _)
RStrip(w, chars) ==
    IF w # <<>> /\ w[Len(w)] \in chars
    THEN RStrip(SubSeq(w, 1, Len(w) - 1), chars)
    ELSE w

\* a faulty variant: str.rstrip in place of str.strip
StripRightOnly(w, chars) == RStrip(w, chars)

Strip(w, chars) == RStrip(LStrip(w, chars), chars)

Punctuation == {",", ".", "?", "!"}

\* the list comprehension of run_asr over output[0].timestamp['word']
WordTimes(raw) ==
    [i \in 1..Len(raw) |->
        [word |-> Strip(raw[i].word, Punctuation),
         start |-> raw[i].start,
         end |-> raw[i].end]]

(***************************************************************************)
(* os.path.basename: what follows the last "/".                            *)
(***************************************************************************)
LastSlash(p) ==
    LET at == {i \in 1..Len(p) : p[i] = "/"}
    IN  IF at = {} THEN 0 ELSE CHOOSE i \in at : \A j \in at : j <= i

\* a faulty variant: the directory part is kept
WholePath(p) == p

Basename(p) == SubSeq(p, LastSlash(p) + 1, Len(p))

PrefixInpaint == <<"o","u","t","p","u","t","_","i","n","p","a","i","n","t","_">>
PrefixTts == <<"o","u","t","p","u","t","_","t","t","s","_">>

\* inpaint_audio's default for output_path
DefaultInpaintPath(audio_path) == PrefixInpaint \o Basename(audio_path)

\* text_to_speech's default for output_path
DefaultTtsPath(voice_audio_path) == PrefixTts \o Basename(voice_audio_path)

(***************************************************************************)
(* The inputs the model runs the program on.                               *)
(***************************************************************************)
AudioPaths == {<<"a">>, <<"d", "/", "a">>}
VoicePaths == {<<"v">>, <<"d", "/", "v">>, <<"d", "/">>}
OutputPaths == {<<>>, <<"o">>}
Texts == {<<"a">>, <<"a", ",">>}
Chars == {"a", ",", "!"}

\* a value other than the default, for a sampling flag that is given
Supplied(f) ==
    CASE f = "num_steps" -> 10
      [] f = "init_temp" -> 8
      [] f = "init_diversity" -> 12
      [] f = "guidance" -> 0
      [] f = "rescale" -> 5
      [] f = "topk" -> 1

NoFlags == [f \in Flags |-> Absent]
AllFlags == [f \in Flags |-> Supplied(f)]
SomeFlags == [f \in Flags |-> IF f \in {"num_steps", "guidance"} THEN Supplied(f) ELSE Absent]
FlagSubsets == {[f \in Flags |-> IF f \in S THEN Supplied(f) ELSE Absent] : S \in SUBSET Flags}

StringsUpTo(n) == UNION {[1..k -> Chars] : k \in 0..n}

\* s cut into words after each position in cuts
RECURSIVE SplitAt(_, _)
SplitAt(s, cuts) ==
    IF cuts = {}
    THEN IF s = <<>> THEN <<>> ELSE <<s>>
    ELSE LET c == CHOOSE x \in cuts : \A y \in cuts : y <= x
         IN  Append(SplitAt(SubSeq(s, 1, c), cuts \ {c}), SubSeq(s, c + 1, Len(s)))

\* the i-th raw token of an ASR result whose first token starts at tick t0
Token(w, i, t0) == [word |-> w, start |-> t0 + 2 * i, end |-> t0 + 2 * i + 1]

RawOf(ws, t0) == [i \in 1..Len(ws) |-> Token(ws[i], i, t0)]

\* every list of non-empty words of at most MaxChars characters together
RawWordLists ==
    UNION {{SplitAt(s, cuts) : cuts \in SUBSET (1..(Len(s) - 1))} : s \in StringsUpTo(MaxChars)}

\* every ASR result within the bounds
AsrOutputs ==
    {[text |-> t, words |-> RawOf(ws, t0)] :
        t \in Texts, ws \in RawWordLists, t0 \in {0, 1}}

\* two ASR results, for the runs that are not about the word timings
FewAsrOutputs ==
    {[text |-> <<"a">>, words |-> RawOf(<< <<"a">> >>, 0)],
     [text |-> <<"a", ",">>, words |-> RawOf(<< <<"a", ",">>, <<"!", "a">> >>, 1)]}

Collaborators == {"PlayDiffusion", "restore_from", "transcribe", "inpaint", "tts", "write"}

\* what the diffusion stub and the TTS stub return: (sample rate, samples)
InpaintAudioOut == <<16000, "inpainted">>
TtsAudioOut == <<16000, "synthesized">>
NoAudio == <<0, "none">>

EmptyFrame ==
    [audio_path |-> NoneStr, output_text |-> NoneStr, target_text |-> NoneStr,
     output_path |-> NoneStr, kw |-> NoFlags, input_text |-> NoneStr,
     word_times |-> <<>>, output_audio |-> NoAudio,
     text |-> NoneStr, voice_audio_path |-> NoneStr,
     asr_audio_path |-> NoneStr, ret |-> NoResult]

CommandLines(flagSets) ==
    [mode : {"absent", "asr", "inpaint", "tts"},
     audio : AudioPaths \cup {NoneStr},
     text : Texts \cup {NoneStr, <<>>},
     voice : {NoneStr, <<>>, <<"v">>, <<"d", "/", "v">>},
     output : OutputPaths \cup {NoneStr},
     kw : flagSets]

InpaintCalls(flagSets) ==
    [mode : {"absent"}, audio : AudioPaths, text : Texts \cup {<<>>},
     voice : {NoneStr}, output : OutputPaths \cup {NoneStr}, kw : flagSets]

TtsCalls ==
    [mode : {"absent"}, audio : {NoneStr}, text : Texts \cup {<<>>},
     voice : VoicePaths, output : OutputPaths \cup {NoneStr}, kw : {NoFlags}]

AsrCalls ==
    [mode : {"absent"}, audio : AudioPaths, text : {NoneStr},
     voice : {NoneStr}, output : {NoneStr}, kw : {NoFlags}]

\* the state before the first statement runs, for a given entry and input
Start(e, in, out) ==
    /\ entry = e
    /\ input = in
    /\ asrOut = out
    /\ args = NoArgs
    /\ pc = IF e = "main" THEN "parse_args" ELSE "init_inpainter"
    /\ stack = IF e = "main" THEN <<"main">> ELSE <<"caller">>
    /\ frame = EmptyFrame
    /\ inpainter = "none"
    /\ asr_model = "none"
    /\ calls = <<>>
    /\ files = <<>>
    /\ printed = <<>>
    /\ result = NoResult
    /\ err = NoErr
    /\ outcomes = [c \in Collaborators |-> "unset"]
    /\ first = NoRun

FewFlagSets == {NoFlags, AllFlags, SomeFlags}

Init ==
    \E out \in FewAsrOutputs :
        \/ \E in \in CommandLines(FewFlagSets) : Start("main", in, out)
        \/ \E in \in InpaintCalls(FewFlagSets) :
              \E e \in {"inpaint_audio", "run_complete_pipeline"} : Start(e, in, out)
        \/ \E in \in TtsCalls : Start("text_to_speech", in, out)
        \/ \E in \in AsrCalls : Start("run_asr", in, out)

(***************************************************************************)
(* Calls of the external libraries.                                        *)
(***************************************************************************)
\* the outcomes a call of c may have: free the first time, then as recorded
Outcomes(c) == IF outcomes[c] = "unset" THEN {"ok", "fail"} ELSE {outcomes[c]}

Call(c, a, o) == [fn |-> c, arg |-> a, outcome |-> o]

\* a faulty variant: the exception is caught and the method carries on
Swallowed(o) == FALSE

\* a call that fails raises into the calling method, which has no try/except
Raised(o) == o = "fail"

\* the exception a failing call of c raises
CollabError(c) == [type |-> "collaborator", what |-> c]

\* the ValueError main() raises for a missing argument
UsageError(flag) == [type |-> "ValueError", what |-> flag]

\* argparse's exit for a missing required argument
ArgparseExit(flag) == [type |-> "SystemExit", what |-> flag]

(***************************************************************************)
(* main(): parser.parse_args()                                             *)
(***************************************************************************)
Namespace(in) ==
    [parsed |-> TRUE,
     mode |-> IF in.mode = "absent" THEN ModeDefault ELSE in.mode,
     audio |-> in.audio,
     text |-> in.text,
     voice |-> in.voice,
     output |-> in.output,
     asr_model |-> AsrModelDefault,
     kw |-> [f \in Flags |-> IF in.kw[f] = Absent THEN ArgparseDefault(f) ELSE in.kw[f]]]

ParseArgs ==
    /\ pc = "parse_args"
    /\ IF input.audio = NoneStr
       THEN /\ pc' = "raised"
            /\ err' = ArgparseExit("audio")
            /\ args' = args
       ELSE /\ pc' = "init_inpainter"
            /\ err' = err
            /\ args' = Namespace(input)
    /\ UNCHANGED <<entry, input, stack, frame, inpainter, asr_model, calls,
                   files, printed, result, asrOut, outcomes, first>>

(***************************************************************************)
(* PlayDiffusionInference.__init__                                         *)
(***************************************************************************)
AsrModelPath == IF entry = "main" THEN args.asr_model ELSE AsrModelDefault

InitInpainter ==
    /\ pc = "init_inpainter"
    /\ \E o \in Outcomes("PlayDiffusion") :
         /\ calls' = Append(calls, Call("PlayDiffusion", <<>>, o))
         /\ outcomes' = [outcomes EXCEPT !["PlayDiffusion"] = o]
         /\ IF ~Raised(o)
            THEN inpainter' = "loaded" /\ pc' = "init_asr_model" /\ err' = err
            ELSE inpainter' = inpainter /\ pc' = "raised"
                 /\ err' = CollabError("PlayDiffusion")
    /\ UNCHANGED <<entry, input, args, stack, frame, asr_model, files, printed,
                   result, asrOut, first>>

InitAsrModel ==
    /\ pc = "init_asr_model"
    /\ \E o \in Outcomes("restore_from") :
         /\ calls' = Append(calls, Call("restore_from", AsrModelPath, o))
         /\ outcomes' = [outcomes EXCEPT !["restore_from"] = o]
         /\ IF ~Raised(o)
            THEN /\ asr_model' = "loaded"
                 /\ pc' = IF entry = "main" THEN "dispatch" ELSE "call"
                 /\ err' = err
            ELSE /\ asr_model' = asr_model
                 /\ pc' = "raised"
                 /\ err' = CollabError("restore_from")
    /\ UNCHANGED <<entry, input, args, stack, frame, inpainter, files, printed,
                   result, asrOut, first>>

(***************************************************************************)
(* Calling and returning.  A return to "caller" ends a direct call; a      *)
(* return into main() or into another method continues there.              *)
(***************************************************************************)
Caller == stack[Len(stack) - 1]
Pop == SubSeq(stack, 1, Len(stack) - 1)

\* where the caller continues after the callee returned
ReturnPc(callee) ==
    CASE Caller = "caller" -> "done"
      [] Caller = "main" /\ callee = "run_asr" -> "main_asr_print"
      [] Caller = "main" /\ callee # "run_asr" -> "main_print"
      [] Caller = "inpaint_audio" -> "inpaint"
      [] Caller = "run_complete_pipeline" -> "pipeline_return"

(***************************************************************************)
(* main(): the three branches on args.mode                                 *)
(***************************************************************************)
\* `not args.text`
TextMissing(a) == Falsy(a.text)

\* `not args.voice`
VoiceMissing(a) == Falsy(a.voice)

MainAsr ==
    /\ pc = "dispatch"
    /\ args.mode = "asr"
    /\ pc' = "run_asr"
    /\ stack' = Append(stack, "run_asr")
    /\ frame' = [EmptyFrame EXCEPT !.asr_audio_path = args.audio]
    /\ UNCHANGED <<entry, input, args, inpainter, asr_model, calls, files,
                   printed, result, err, asrOut, outcomes, first>>

MainInpaintNoText ==
    /\ pc = "dispatch"
    /\ args.mode = "inpaint"
    /\ TextMissing(args)
    /\ pc' = "raised"
    /\ err' = UsageError("text")
    /\ UNCHANGED <<entry, input, args, stack, frame, inpainter, asr_model,
                   calls, files, printed, result, asrOut, outcomes, first>>

MainInpaint ==
    /\ pc = "dispatch"
    /\ args.mode = "inpaint"
    /\ ~TextMissing(args)
    /\ pc' = "run_complete_pipeline"
    /\ stack' = Append(stack, "run_complete_pipeline")
    /\ frame' = [EmptyFrame EXCEPT !.audio_path = args.audio,
                                   !.target_text = args.text,
                                   !.output_path = args.output,
                                   !.kw = args.kw]
    /\ UNCHANGED <<entry, input, args, inpainter, asr_model, calls, files,
                   printed, result, err, asrOut, outcomes, first>>

MainTtsNoText ==
    /\ pc = "dispatch"
    /\ args.mode = "tts"
    /\ TextMissing(args)
    /\ pc' = "raised"
    /\ err' = UsageError("text")
    /\ UNCHANGED <<entry, input, args, stack, frame, inpainter, asr_model,
                   calls, files, printed, result, asrOut, outcomes, first>>

MainTtsNoVoice ==
    /\ pc = "dispatch"
    /\ args.mode = "tts"
    /\ ~TextMissing(args)
    /\ VoiceMissing(args)
    /\ pc' = "raised"
    /\ err' = UsageError("voice")
    /\ UNCHANGED <<entry, input, args, stack, frame, inpainter, asr_model,
                   calls, files, printed, result, asrOut, outcomes, first>>

MainTts ==
    /\ pc = "dispatch"
    /\ args.mode = "tts"
    /\ ~TextMissing(args)
    /\ ~VoiceMissing(args)
    /\ pc' = "text_to_speech"
    /\ stack' = Append(stack, "text_to_speech")
    /\ frame' = [EmptyFrame EXCEPT !.text = args.text,
                                   !.voice_audio_path = args.voice,
                                   !.output_path = args.output]
    /\ UNCHANGED <<entry, input, args, inpainter, asr_model, calls, files,
                   printed, result, err, asrOut, outcomes, first>>

\* main() prints the path the operation returned and ends
MainPrint ==
    /\ pc = "main_print"
    /\ printed' = Append(printed, frame.ret.path)
    /\ pc' = "done"
    /\ UNCHANGED <<entry, input, args, stack, frame, inpainter, asr_model,
                   calls, files, result, err, asrOut, outcomes, first>>

\* main() in mode asr prints the text and the word times, no path, and ends
MainAsrPrint ==
    /\ pc = "main_asr_print"
    /\ pc' = "done"
    /\ UNCHANGED <<entry, input, args, stack, frame, inpainter, asr_model,
                   calls, files, printed, result, err, asrOut, outcomes, first>>

(***************************************************************************)
(* A method called directly on a constructed PlayDiffusionInference.       *)
(***************************************************************************)
DirectCall ==
    /\ pc = "call"
    /\ pc' = entry
    /\ stack' = Append(stack, entry)
    /\ frame' = [EmptyFrame EXCEPT
            !.audio_path = input.audio,
            !.asr_audio_path = IF entry = "run_asr" THEN input.audio ELSE NoneStr,
            !.output_text = IF entry = "inpaint_audio" THEN input.text ELSE NoneStr,
            !.target_text = IF entry = "run_complete_pipeline" THEN input.text ELSE NoneStr,
            !.text = IF entry = "text_to_speech" THEN input.text ELSE NoneStr,
            !.voice_audio_path = input.voice,
            !.output_path = input.output,
            !.kw = input.kw]
    /\ UNCHANGED <<entry, input, args, inpainter, asr_model, calls, files,
                   printed, result, err, asrOut, outcomes, first>>

(***************************************************************************)
(* run_complete_pipeline                                                   *)
(***************************************************************************)
\* a faulty variant: output_path is not handed on
PipelineArgsNoOutput(fr) ==
    [EmptyFrame EXCEPT !.audio_path = fr.audio_path,
                       !.output_text = fr.target_text,
                       !.kw = fr.kw]

\* the arguments run_complete_pipeline hands to inpaint_audio
PipelineArgs(fr) ==
    [EmptyFrame EXCEPT !.audio_path = fr.audio_path,
                       !.output_text = fr.target_text,
                       !.output_path = fr.output_path,
                       !.kw = fr.kw]

RunCompletePipeline ==
    /\ pc = "run_complete_pipeline"
    /\ pc' = "inpaint_audio"
    /\ stack' = Append(stack, "inpaint_audio")
    /\ frame' = PipelineArgs(frame)
    /\ UNCHANGED <<entry, input, args, inpainter, asr_model, calls, files,
                   printed, result, err, asrOut, outcomes, first>>

\* `return result`: hands on what inpaint_audio returned
RunCompletePipelineReturn ==
    /\ pc = "pipeline_return"
    /\ pc' = ReturnPc("run_complete_pipeline")
    /\ stack' = Pop
    /\ result' = IF Caller = "caller" THEN frame.ret ELSE result
    /\ UNCHANGED <<entry, input, args, frame, inpainter, asr_model, calls,
                   files, printed, err, asrOut, outcomes, first>>

(***************************************************************************)
(* inpaint_audio                                                           *)
(***************************************************************************)
\* the keyword parameters after the signature's defaults are bound
BindDefaults(kw) ==
    [f \in Flags |-> IF kw[f] = Absent THEN SignatureDefault(f) ELSE kw[f]]

\* a faulty variant: the wrong path is transcribed
AsrArgOutputPath(fr) == fr.output_path

\* the argument of self.run_asr(audio_path)
AsrArg(fr) == fr.audio_path

\* entering the method: the defaults are bound and run_asr is called
InpaintAudio ==
    /\ pc = "inpaint_audio"
    /\ pc' = "run_asr"
    /\ stack' = Append(stack, "run_asr")
    /\ frame' = [frame EXCEPT !.kw = BindDefaults(frame.kw),
                              !.asr_audio_path = AsrArg(frame)]
    /\ UNCHANGED <<entry, input, args, inpainter, asr_model, calls, files,
                   printed, result, err, asrOut, outcomes, first>>

\* a faulty variant: the transcript is used as the target text too
InpaintInputBothTranscript(fr) ==
    [input_text |-> fr.input_text,
     output_text |-> fr.input_text,
     input_word_times |-> fr.word_times,
     audio |-> fr.audio_path,
     num_steps |-> fr.kw["num_steps"],
     init_temp |-> fr.kw["init_temp"],
     init_diversity |-> fr.kw["init_diversity"],
     guidance |-> fr.kw["guidance"],
     rescale |-> fr.kw["rescale"],
     topk |-> fr.kw["topk"]]

\* the InpaintInput inpaint_audio builds
InpaintInput(fr) ==
    [input_text |-> fr.input_text,
     output_text |-> fr.output_text,
     input_word_times |-> fr.word_times,
     audio |-> fr.audio_path,
     num_steps |-> fr.kw["num_steps"],
     init_temp |-> fr.kw["init_temp"],
     init_diversity |-> fr.kw["init_diversity"],
     guidance |-> fr.kw["guidance"],
     rescale |-> fr.kw["rescale"],
     topk |-> fr.kw["topk"]]

\* self.inpainter.inpaint(InpaintInput(...))
Inpaint ==
    /\ pc = "inpaint"
    /\ \E o \in Outcomes("inpaint") :
         /\ calls' = Append(calls, Call("inpaint", InpaintInput(frame), o))
         /\ outcomes' = [outcomes EXCEPT !["inpaint"] = o]
         /\ IF ~Raised(o)
            THEN /\ frame' = [frame EXCEPT !.output_audio = InpaintAudioOut]
                 /\ pc' = "save_inpaint"
                 /\ err' = err
            ELSE /\ frame' = frame
                 /\ pc' = "raised"
                 /\ err' = CollabError("inpaint")
    /\ UNCHANGED <<entry, input, args, stack, inpainter, asr_model, files,
                   printed, result, asrOut, first>>

\* `if output_path is None: output_path = f"output_inpaint_{...}"`
InpaintPath(fr) ==
    IF fr.output_path = NoneStr THEN DefaultInpaintPath(fr.audio_path) ELSE fr.output_path

\* a faulty variant: subtype='PCM_16' is left out
WriteArgsNoSubtype(path, audio) ==
    [file |-> path, data |-> audio[2], samplerate |-> audio[1], subtype |-> "default"]

\* the arguments of sf.write(output_path, output_audio[1], output_audio[0], subtype='PCM_16')
WriteArgs(path, audio) ==
    [file |-> path, data |-> audio[2], samplerate |-> audio[1], subtype |-> "PCM_16"]

\* the output path is resolved, the file written and the path returned
SaveInpaint ==
    /\ pc = "save_inpaint"
    /\ \E o \in Outcomes("write") :
         LET path == InpaintPath(frame)
             w == WriteArgs(path, frame.output_audio)
         IN  /\ calls' = Append(calls, Call("write", w, o))
             /\ outcomes' = [outcomes EXCEPT !["write"] = o]
             /\ IF ~Raised(o)
                THEN /\ files' = Append(files, w)
                     /\ frame' = [frame EXCEPT !.output_path = path,
                                               !.ret = PathResult(path)]
                     /\ stack' = Pop
                     /\ pc' = ReturnPc("inpaint_audio")
                     /\ result' = IF Caller = "caller" THEN PathResult(path) ELSE result
                     /\ err' = err
                ELSE /\ files' = files
                     /\ frame' = [frame EXCEPT !.output_path = path]
                     /\ stack' = stack
                     /\ pc' = "raised"
                     /\ result' = result
                     /\ err' = CollabError("write")
    /\ UNCHANGED <<entry, input, args, inpainter, asr_model, printed, asrOut, first>>

(***************************************************************************)
(* run_asr                                                                 *)
(***************************************************************************)
\* self.asr_model.transcribe([audio_path], timestamps=True), the word
\* times, and `return text, text, word_times`
RunAsr ==
    /\ pc = "run_asr"
    /\ \E o \in Outcomes("transcribe") :
         LET a == [paths |-> <<frame.asr_audio_path>>, timestamps |-> TRUE]
             text == asrOut.text
             word_times == WordTimes(asrOut.words)
             ret == AsrResult(text, text, word_times)
         IN  /\ calls' = Append(calls, Call("transcribe", a, o))
             /\ outcomes' = [outcomes EXCEPT !["transcribe"] = o]
             /\ IF ~Raised(o)
                THEN /\ frame' = [frame EXCEPT !.input_text = ret.input_text,
                                               !.word_times = ret.word_times,
                                               !.ret = ret]
                     /\ stack' = Pop
                     /\ pc' = ReturnPc("run_asr")
                     /\ result' = IF Caller = "caller" THEN ret ELSE result
                     /\ err' = err
                ELSE /\ frame' = frame
                     /\ stack' = stack
                     /\ pc' = "raised"
                     /\ result' = result
                     /\ err' = CollabError("transcribe")
    /\ UNCHANGED <<entry, input, args, inpainter, asr_model, files, printed,
                   asrOut, first>>

(***************************************************************************)
(* text_to_speech                                                          *)
(***************************************************************************)
\* the TTSInput text_to_speech builds
TTSInput(fr) == [output_text |-> fr.text, voice |-> fr.voice_audio_path]

\* self.inpainter.tts(TTSInput(...))
TextToSpeech ==
    /\ pc = "text_to_speech"
    /\ \E o \in Outcomes("tts") :
         /\ calls' = Append(calls, Call("tts", TTSInput(frame), o))
         /\ outcomes' = [outcomes EXCEPT !["tts"] = o]
         /\ IF ~Raised(o)
            THEN /\ frame' = [frame EXCEPT !.output_audio = TtsAudioOut]
                 /\ pc' = "save_tts"
                 /\ err' = err
            ELSE /\ frame' = frame
                 /\ pc' = "raised"
                 /\ err' = CollabError("tts")
    /\ UNCHANGED <<entry, input, args, stack, inpainter, asr_model, files,
                   printed, result, asrOut, first>>

\* `if output_path is None: output_path = f"output_tts_{...}"`
TtsPath(fr) ==
    IF fr.output_path = NoneStr THEN DefaultTtsPath(fr.voice_audio_path) ELSE fr.output_path

SaveTts ==
    /\ pc = "save_tts"
    /\ \E o \in Outcomes("write") :
         LET path == TtsPath(frame)
             w == WriteArgs(path, frame.output_audio)
         IN  /\ calls' = Append(calls, Call("write", w, o))
             /\ outcomes' = [outcomes EXCEPT !["write"] = o]
             /\ IF ~Raised(o)
                THEN /\ files' = Append(files, w)
                     /\ frame' = [frame EXCEPT !.output_path = path,
                                               !.ret = PathResult(path)]
                     /\ stack' = Pop
                     /\ pc' = ReturnPc("text_to_speech")
                     /\ result' = IF Caller = "caller" THEN PathResult(path) ELSE result
                     /\ err' = err
                ELSE /\ files' = files
                     /\ frame' = [frame EXCEPT !.output_path = path]
                     /\ stack' = stack
                     /\ pc' = "raised"
                     /\ result' = result
                     /\ err' = CollabError("write")
    /\ UNCHANGED <<entry, input, args, inpainter, asr_model, printed, asrOut, first>>

(***************************************************************************)
(* The program: one run of main() or of one method.                        *)
(***************************************************************************)
Next ==
    \/ ParseArgs
    \/ InitInpainter
    \/ InitAsrModel
    \/ MainAsr
    \/ MainInpaintNoText
    \/ MainInpaint
    \/ MainTtsNoText
    \/ MainTtsNoVoice
    \/ MainTts
    \/ MainPrint
    \/ MainAsrPrint
    \/ DirectCall
    \/ RunCompletePipeline
    \/ RunCompletePipelineReturn
    \/ InpaintAudio
    \/ Inpaint
    \/ SaveInpaint
    \/ RunAsr
    \/ TextToSpeech
    \/ SaveTts

Spec == Init /\ [][Next]_vars

(***************************************************************************)
(* The inpaint operation alone, over every subset of the sampling flags:   *)
(* main() in mode inpaint with a text, and the two methods called          *)
(* directly.                                                               *)
(***************************************************************************)
InitSampling ==
    \E out \in {o \in FewAsrOutputs : o.text = <<"a">>} :
        \/ \E in \in CommandLines(FlagSubsets) :
              /\ in.mode \in {"absent", "inpaint"}
              /\ in.audio = <<"d", "/", "a">>
              /\ in.text = <<"a", ",">>
              /\ in.voice = NoneStr
              /\ in.output \in {NoneStr, <<"o">>}
              /\ Start("main", in, out)
        \/ \E in \in InpaintCalls(FlagSubsets) :
              /\ in.audio = <<"d", "/", "a">>
              /\ in.text = <<"a", ",">>
              /\ in.output = NoneStr
              /\ \E e \in {"inpaint_audio", "run_complete_pipeline"} : Start(e, in, out)

NextSampling ==
    \/ ParseArgs
    \/ InitInpainter
    \/ InitAsrModel
    \/ MainInpaint
    \/ MainPrint
    \/ DirectCall
    \/ RunCompletePipeline
    \/ RunCompletePipelineReturn
    \/ InpaintAudio
    \/ RunAsr
    \/ Inpaint
    \/ SaveInpaint

SpecSampling == InitSampling /\ [][NextSampling]_vars

(***************************************************************************)
(* run_asr alone, over every ASR result within the bounds.                 *)
(***************************************************************************)
InitAsr ==
    \E out \in AsrOutputs :
        \E in \in AsrCalls : in.audio = <<"a">> /\ Start("run_asr", in, out)

NextAsr ==
    \/ InitInpainter
    \/ InitAsrModel
    \/ DirectCall
    \/ RunAsr

SpecAsr == InitAsr /\ [][NextAsr]_vars

(***************************************************************************)
(* A paired run: inpaint_audio is called, and when it has ended            *)
(* run_complete_pipeline is called on the same object with the same        *)
(* arguments, the external libraries behaving as they did the first time.  *)
(***************************************************************************)
\* the calls the operation made, without those of __init__
OperationCalls == SelectSeq(calls, LAMBDA c : c.fn \notin {"PlayDiffusion", "restore_from"})

Ended == pc \in {"done", "raised"}

Replay ==
    /\ Ended
    /\ entry = "inpaint_audio"
    /\ asr_model = "loaded"
    /\ first = NoRun
    /\ first' = [taken |-> TRUE, calls |-> OperationCalls, files |-> files,
                 result |-> result, err |-> err]
    /\ entry' = "run_complete_pipeline"
    /\ pc' = "call"
    /\ stack' = <<"caller">>
    /\ frame' = EmptyFrame
    /\ calls' = <<>>
    /\ files' = <<>>
    /\ result' = NoResult
    /\ err' = NoErr
    /\ UNCHANGED <<input, args, inpainter, asr_model, printed, asrOut, outcomes>>

InitPair ==
    \E out \in FewAsrOutputs :
        \E in \in InpaintCalls(FewFlagSets) : Start("inpaint_audio", in, out)

NextPair ==
    \/ InitInpainter
    \/ InitAsrModel
    \/ DirectCall
    \/ RunCompletePipeline
    \/ RunCompletePipelineReturn
    \/ InpaintAudio
    \/ RunAsr
    \/ Inpaint
    \/ SaveInpaint
    \/ Replay

SpecPair == InitPair /\ [][NextPair]_vars

(***************************************************************************)
(* Properties.                                                             *)
(***************************************************************************)
At(fn) == {i \in 1..Len(calls) : calls[i].fn = fn}
CharsOf(w) == {w[i] : i \in 1..Len(w)}

\* C1: when main() raises the usage error for a missing --text (mode inpaint
\* or tts), nothing has been constructed and nothing has been called: no
\* PlayDiffusion handle, no ASR model, no transcribe, inpaint, tts or write.
C1_UsageErrorBeforeConstruction ==
    (entry = "main" /\ input.text = NoneStr /\ pc = "raised"
        /\ err = UsageError("text")) =>
        /\ inpainter = "none"
        /\ asr_model = "none"
        /\ calls = <<>>
        /\ files = <<>>

\* C2: whenever the diffusion stub's inpaint has been called, transcribe was
\* called exactly once, earlier, on the audio path of the inpaint request
\* (the caller's audio path) and returned; inpaint is called once at most;
\* a write comes only after inpaint returned.
C2_TranscribeOnceBeforeInpaint ==
    \A j \in At("inpaint") :
        /\ Cardinality(At("transcribe")) = 1
        /\ Cardinality(At("inpaint")) = 1
        /\ \A i \in At("transcribe") :
              /\ i < j
              /\ calls[i].outcome = "ok"
              /\ calls[i].arg.paths = <<calls[j].arg.audio>>
              /\ calls[i].arg.paths = <<input.audio>>
        /\ \A k \in At("write") : k > j /\ calls[j].outcome = "ok"

C2_Witness ==
    /\ pc = "done"
    /\ At("inpaint") # {}
    /\ At("write") # {}
    /\ input.output # NoneStr

\* C3 as claimed: the request handed to the diffusion stub has the
\* transcript text both as input_text and as output_text.
C3_TranscriptInBothFields ==
    \A j \in At("inpaint") :
        /\ calls[j].arg.input_text = asrOut.text
        /\ calls[j].arg.output_text = asrOut.text

\* C3 as amended: the request has the transcript text as input_text and the
\* caller's target text as output_text, and the word times run_asr made.
C3_TranscriptIsSourceOnly ==
    \A j \in At("inpaint") :
        /\ calls[j].arg.input_text = asrOut.text
        /\ calls[j].arg.output_text = input.text
        /\ calls[j].arg.input_word_times = WordTimes(asrOut.words)

C3_Witness ==
    \E j \in At("inpaint") :
        /\ calls[j].outcome = "ok"
        /\ input.text # asrOut.text
        /\ calls[j].arg.output_text # calls[j].arg.input_text

\* C4 as claimed: main() that ended normally, in any of the three modes,
\* has written exactly one PCM_16 file, at the path it printed.
C4_OneWavInEveryMode ==
    (entry = "main" /\ pc = "done") =>
        /\ Len(files) = 1
        /\ Cardinality(At("write")) = 1
        /\ files[1].subtype = "PCM_16"
        /\ printed = <<files[1].file>>

\* C4 as amended: main() that ended normally in mode inpaint or tts has
\* written exactly one PCM_16 file, at the path it printed; in mode asr it
\* has written no file and printed no path.
C4_OneWavUnlessAsr ==
    (entry = "main" /\ pc = "done") =>
        IF args.mode = "asr"
        THEN files = <<>> /\ At("write") = {} /\ printed = <<>>
        ELSE /\ Len(files) = 1
             /\ Cardinality(At("write")) = 1
             /\ files[1].subtype = "PCM_16"
             /\ printed = <<files[1].file>>

C4_Witness ==
    /\ entry = "main"
    /\ pc = "done"
    /\ args.mode = "tts"
    /\ Len(files) = 1

\* b is the basename of p: the end of p after its last "/"
IsBasenameOf(b, p) ==
    \E k \in 0..Len(p) :
        /\ b = SubSeq(p, k + 1, Len(p))
        /\ "/" \notin CharsOf(b)
        /\ k = 0 \/ p[k] = "/"

\* the operation a run performs
Operation ==
    IF entry = "main" THEN IF args.parsed THEN args.mode ELSE "none"
    ELSE IF entry = "text_to_speech" THEN "tts"
    ELSE IF entry = "run_asr" THEN "asr"
    ELSE "inpaint"

\* C5 as claimed: main() that ended normally resolved its output path to
\* output_inpaint_<basename(audio)> in modes inpaint and asr and to
\* output_tts_<basename(voice)> in mode tts when --output is omitted, and
\* to the given path otherwise.
C5_DefaultPathInEveryMode ==
    (entry = "main" /\ pc = "done") =>
        IF input.output # NoneStr
        THEN frame.output_path = input.output
        ELSE \E k \in 0..Len(frame.output_path) :
                LET b == SubSeq(frame.output_path, k + 1, Len(frame.output_path))
                    pre == SubSeq(frame.output_path, 1, k)
                IN  IF args.mode = "tts"
                    THEN pre = PrefixTts /\ IsBasenameOf(b, input.voice)
                    ELSE pre = PrefixInpaint /\ IsBasenameOf(b, input.audio)

\* the path a finished run returned: printed by main(), returned to a caller
Returned == IF entry = "main" THEN printed ELSE <<result.path>>

\* C5 as amended: an inpaint or tts operation that ended normally wrote and
\* returned one path; without an output path it is output_inpaint_<basename
\* (audio)> for inpaint and output_tts_<basename(voice)> for tts, and a given
\* output path is used unchanged.  Mode asr resolves no output path.
C5_DefaultPathUnlessAsr ==
    pc = "done" =>
        IF Operation = "asr"
        THEN frame.output_path = NoneStr /\ files = <<>>
        ELSE /\ Len(files) = 1
             /\ Returned = <<files[1].file>>
             /\ IF input.output # NoneStr
                THEN files[1].file = input.output
                ELSE \E k \in 0..Len(files[1].file) :
                        LET b == SubSeq(files[1].file, k + 1, Len(files[1].file))
                            pre == SubSeq(files[1].file, 1, k)
                        IN  IF Operation = "tts"
                            THEN pre = PrefixTts /\ IsBasenameOf(b, input.voice)
                            ELSE pre = PrefixInpaint /\ IsBasenameOf(b, input.audio)

C5_Witness ==
    /\ pc = "done"
    /\ Operation = "tts"
    /\ input.output = NoneStr
    /\ input.voice = <<"d", "/", "v">>
    /\ Len(files) = 1

\* C6: main() in mode tts without --voice ends with a usage error (the
\* ValueError of main(), or argparse's exit), never calls tts, writes no
\* file and does not end normally.
C6_TtsWithoutVoiceIsUsageError ==
    (entry = "main" /\ input.mode = "tts" /\ input.voice = NoneStr) =>
        /\ At("tts") = {}
        /\ files = <<>>
        /\ pc # "done"
        /\ pc = "raised" => err.type \in {"ValueError", "SystemExit"}

\* the defaults the documentation states, in the model's units
DocumentedDefault(f) ==
    CASE f = "num_steps" -> 30
      [] f = "init_temp" -> 10
      [] f = "init_diversity" -> 10
      [] f = "guidance" -> 5
      [] f = "rescale" -> 7
      [] f = "topk" -> 25

\* C7: the request the diffusion stub receives holds, for each sampling
\* flag, the documented default when the caller omitted it and the caller's
\* value when it was given, from main() and from a direct call alike.
C7_OmittedFlagsAreDefaults ==
    \A j \in At("inpaint") : \A f \in Flags :
        calls[j].arg[f] =
            IF input.kw[f] = Absent THEN DocumentedDefault(f) ELSE input.kw[f]

C7_Witness ==
    \E j \in At("inpaint") :
        /\ entry = "main"
        /\ input.kw["guidance"] = Absent
        /\ input.kw["rescale"] # Absent
        /\ input.kw["topk"] = Absent
        /\ calls[j].outcome = "ok"

\* C8: run_complete_pipeline, called after inpaint_audio with the same
\* arguments and the same behaviour of the external libraries, makes the
\* same calls with the same arguments and outcomes, writes the same file
\* and ends with the same returned path or the same exception.
C8_PipelineSameAsInpaint ==
    (first.taken /\ Ended) =>
        /\ Len(calls) = Len(first.calls)
        /\ \A i \in 1..Len(calls) :
              /\ calls[i].fn = first.calls[i].fn
              /\ calls[i].outcome = first.calls[i].outcome
              /\ calls[i].arg = first.calls[i].arg
        /\ files = first.files
        /\ result = first.result
        /\ err = first.err

C8_Witness ==
    /\ first.taken
    /\ pc = "done"
    /\ entry = "run_complete_pipeline"
    /\ input.output = <<"o">>
    /\ result = PathResult(<<"o">>)
    /\ Len(first.calls) = 3

ClaimedPunctuation == {",", ".", "?", "!"}

\* s is w without its leading and trailing characters from P, and no more
IsStripOf(s, w, P) ==
    \E a \in 0..Len(w) : \E b \in 0..(Len(w) - a) :
        /\ s = SubSeq(w, a + 1, Len(w) - b)
        /\ \A i \in 1..a : w[i] \in P
        /\ \A i \in (Len(w) - b + 1)..Len(w) : w[i] \in P
        /\ s = <<>> \/ (s[1] \notin P /\ s[Len(s)] \notin P)

\* C10: run_asr returns one word time per raw token, in the raw order, with
\* the token's start and end and with the token's word stripped of its
\* leading and trailing , . ? ! and otherwise unchanged; the text is returned
\* as the ASR gave it.
C10_WordTimesStripped ==
    (entry = "run_asr" /\ pc = "done") =>
        /\ Len(result.word_times) = Len(asrOut.words)
        /\ \A i \in 1..Len(asrOut.words) :
              /\ result.word_times[i].start = asrOut.words[i].start
              /\ result.word_times[i].end = asrOut.words[i].end
              /\ IsStripOf(result.word_times[i].word, asrOut.words[i].word,
                           ClaimedPunctuation)
        /\ result.input_text = asrOut.text
        /\ result.output_text = asrOut.text

C10_Witness ==
    /\ entry = "run_asr"
    /\ pc = "done"
    /\ Len(asrOut.words) = 2
    /\ asrOut.words[1].word = <<",", "a", "!">>
    /\ result.word_times[1].word = <<"a">>
    /\ asrOut.words[2].word = <<"a">>
    /\ asrOut.text = <<"a", ",">>
====
